---- MODULE Spec2Model ----
(***************************************************************************)
(* IconForge (src/IconForge.py): the batch executor GenerateWorker, the    *)
(* format emitter IconGenerator.generate and the part of the main window   *)
(* that creates a worker (_start_generation_process).                      *)
(*                                                                         *)
(* A path is a sequence of components; a component is a record             *)
(* [stem, ext], so that os.path.dirname, os.path.basename, os.path.join    *)
(* and os.path.splitext are computed on the path and are not identities.   *)
(***************************************************************************)
EXTENDS Integers, Sequences, FiniteSets, TLC

\* ------------------------------------------------------------------ bounds
\* longest batch handed to a worker
MaxBatch == 3
\* number of size check boxes (the first ones of standard_sizes) considered
MaxSizes == 3

\* ------------------------------------------------------- program constants
\* standard_sizes of the size check boxes
StandardSizes == <<16, 24, 32, 48, 64, 128, 256, 512, 1024>>

\* the formats of PLATFORM_TEMPLATES
PLATFORM_TEMPLATES == {"ico", "icns", "png_suite", "svg"}

\* ------------------------------------------------------------------- paths
Comp(stem, ext) == [stem |-> stem, ext |-> ext]

\* os.path.dirname
dirname(p) == IF Len(p) = 0 THEN p ELSE SubSeq(p, 1, Len(p) - 1)

\* os.path.basename
basename(p) == IF Len(p) = 0 THEN Comp("", "") ELSE p[Len(p)]

\* os.path.splitext(c)[0]
splitext0(c) == c.stem

\* os.path.join(dir, name)
join(dir, name) == Append(dir, name)

\* str.lower() on the extensions that occur
lower(ext) == IF ext = ".SVG" THEN ".svg" ELSE IF ext = ".PNG" THEN ".png" ELSE ext

\* mutant: the extension is compared as it is written
endswith_svg_CaseSensitive(p) == basename(p).ext = ".svg"

\* source_path.lower().endswith('.svg')
endswith_svg(p) == lower(basename(p).ext) = ".svg"

\* the source files on disk that the user can put into a job
Sources ==
    { <<Comp("in", ""), Comp("a", ".png")>>,
      <<Comp("in", ""), Comp("b", ".svg")>>,
      <<Comp("in", ""), Comp("c", ".SVG")>>,
      <<Comp("in", ""), Comp("bad", ".png")>> }

\* sources whose bytes cannot be decoded (Image.open raises)
Unreadable == { <<Comp("in", ""), Comp("bad", ".png")>> }

\* the directory the user picks in the dialogs
OutDir == <<Comp("out", "")>>

\* every prefix of a directory path (os.makedirs creates the ancestors too)
Ancestors(d) == { SubSeq(d, 1, k) : k \in 1..Len(d) }

\* ----------------------------------------------------------------- options
RECURSIVE AscendingSeq(_, _)
\* the members of S among the first k standard sizes, in check-box order,
\* each as the (s, s) tuple the window builds
AscendingSeq(S, k) ==
    IF k = 0 THEN <<>>
    ELSE IF StandardSizes[k] \in S
         THEN Append(AscendingSeq(S, k - 1), <<StandardSizes[k], StandardSizes[k]>>)
         ELSE AscendingSeq(S, k - 1)

\* the lists of (s, s) tuples the checked size boxes can give
SizeLists ==
    { AscendingSeq(S, MaxSizes) :
        S \in SUBSET { StandardSizes[k] : k \in 1..MaxSizes } }

\* _get_current_options_for_generation: the sizes are the checked boxes for
\* ico and png_suite and the empty list for the other templates
get_current_options_for_generation ==
    { [format |-> fmt,
       sizes |-> IF fmt = "ico" \/ fmt = "png_suite" THEN sz ELSE <<>>] :
        fmt \in PLATFORM_TEMPLATES, sz \in SizeLists }

\* the lists of distinct sources of length 1..MaxBatch
Batches ==
    { b \in UNION { [1..n -> Sources] : n \in 1..MaxBatch } :
        \A x, y \in DOMAIN b : x # y => b[x] # b[y] }

\* _start_generation_process: the output path the dialogs can return.  A
\* batch or a png_suite job gets a directory, any other job a file name
\* (suggested: the source's base name with the format as extension).
start_generation_process(items, opts) ==
    LET is_batch == Len(items) > 1
        fmt == opts.format
        suggested_name == splitext0(basename(items[1]))
    IN  IF is_batch \/ fmt = "png_suite"
        THEN { OutDir }
        ELSE { join(OutDir, Comp(nm, "." \o fmt)) : nm \in {suggested_name, "icon"} }

\* --------------------------------------------------------------- generate
\* mutant: the name carries the size once only
size_name_OneSide(base_name, size) ==
    base_name \o "_" \o ToString(size)

\* f"{base_name}_{size}x{size}"
size_name(base_name, size) ==
    base_name \o "_" \o ToString(size) \o "x" \o ToString(size)

Raise(msg, ds) == [raised |-> TRUE, msg |-> msg, dirs |-> ds, wrote |-> {}]
Return(ds, fs) == [raised |-> FALSE, msg |-> "", dirs |-> ds, wrote |-> fs]

\* the result of a call together with the operations the call went through
Steps(r, st) == r @@ [steps |-> st]

\* IconGenerator._generate_svg: one file {base_name}.svg in output_dir
generate_svg(source_path, output_dir, base_name, options, ds) ==
    IF source_path \in Unreadable
    THEN Raise("cannot read source", ds)
    ELSE Return(ds, { join(output_dir, Comp(base_name, ".svg")) })

\* mutant: the empty size list is not rejected
emit_sized_NoCheck(output_dir, base_name, sizes, ext, msg, ds) ==
    Return(ds, { join(output_dir, Comp(size_name(base_name, sizes[k][1]), ext)) :
                   k \in 1..Len(sizes) })

\* the ico and the png_suite branch of generate: no size is an error, else
\* one file {base_name}_{size}x{size} per size tuple
emit_sized(output_dir, base_name, sizes, ext, msg, ds) ==
    IF sizes = <<>>
    THEN Raise(msg, ds)
    ELSE Return(ds, { join(output_dir, Comp(size_name(base_name, sizes[k][1]), ext)) :
                        k \in 1..Len(sizes) })

\* IconGenerator.generate: the directories after the call, the files it
\* wrote, and whether (and with which message) it raised
generate(source_path, output_dir, base_name, options, ds0) ==
    LET fmt == options.format
        ds == ds0 \cup Ancestors(output_dir)
        sizes == options.sizes
        pre == IF output_dir \in ds0 THEN <<>> ELSE <<"makedirs">>
        raster == pre \o <<"open_source", "process_image">>
    IN  IF fmt = "svg"
        THEN IF ~endswith_svg(source_path)
             THEN Steps(Raise("svg output needs an svg source", ds), pre)
             ELSE Steps(generate_svg(source_path, output_dir, base_name, options, ds),
                        pre \o <<"_generate_svg">>)
        ELSE IF source_path \in Unreadable
        THEN Steps(Raise("cannot identify image file", ds), pre \o <<"open_source">>)
        ELSE IF fmt = "ico"
        THEN Steps(emit_sized(output_dir, base_name, sizes, ".ico",
                              "ico needs at least one size", ds), raster)
        ELSE IF fmt = "icns"
        THEN Steps(Return(ds, { join(output_dir, Comp(base_name, ".icns")) }), raster)
        ELSE IF fmt = "png_suite"
        THEN Steps(emit_sized(output_dir, base_name, sizes, ".png",
                              "png suite needs at least one size", ds), raster)
        ELSE Steps(Raise("unsupported output format", ds), raster)

\* ------------------------------------------------------------------- state
VARIABLES
    batch,          \* GenerateWorker.batch
    output_path,    \* GenerateWorker.output_path
    options,        \* GenerateWorker.options
    is_cancelled,   \* GenerateWorker.is_cancelled
    pc,             \* position of run: pending, loop, generate, done
    i,              \* the loop index of run (0-based)
    output_dir,     \* the local output_dir of run
    dirs,           \* directories that exist
    files,          \* output files that exist
    events,         \* the signals emitted so far, in order
    calls,          \* the generate invocations so far, in order
    wrote,          \* per returned generate call, the files it wrote
    cancelAt,       \* where run was when cancel() was first called
    raised,         \* 1-based index of the item whose generate raised, or 0
    trace,          \* per ended generate call, the operations it went through
    svg,            \* the _generate_svg call under study (SpecSvg)
    REMBG_AVAILABLE,    \* the module-level flag
    rembg_remove_func,  \* IconForgeWindow.rembg_remove_func
    pi,             \* the process_image call under study (SpecImg)
    active_workers, \* IconForgeWindow.active_workers
    job,            \* the hook decisions of the job under study (SpecJob)
    batch_items,    \* IconForgeWindow.batch_items
    batch_list,     \* the entries of the list widget IconForgeWindow.batch_list
    last_op         \* the last operation on the batch list (SpecBatch)

vars == <<batch, output_path, options, is_cancelled, pc, i, output_dir,
          dirs, files, events, calls, wrote, cancelAt, raised, trace,
          svg, REMBG_AVAILABLE, rembg_remove_func, pi, active_workers,
          job, batch_items, batch_list, last_op>>

\* the state of the worker
workerVars == <<batch, output_path, options, is_cancelled, pc, i, output_dir,
                dirs, files, events, calls, wrote, cancelAt, raised, trace>>

\* the state the worker never touches
fnVars == <<svg, REMBG_AVAILABLE, rembg_remove_func, pi, active_workers,
            job, batch_items, batch_list, last_op>>

\* the batch list and the job of the window
windowVars == <<job, batch_items, batch_list, last_op>>

\* the value of a variable that holds no call
Idle == [phase |-> "idle"]

NoDir == <<>>

\* no job, and the batch list as __init__ leaves it
NoWindow ==
    /\ job = Idle
    /\ batch_items = <<>>
    /\ batch_list = <<>>
    /\ last_op = "none"

\* GenerateWorker.__init__, with the arguments _start_generation_process
\* passes; the output directory may have been removed since it was picked
Init ==
    /\ batch \in Batches
    /\ options \in get_current_options_for_generation
    /\ output_path \in start_generation_process(batch, options)
    /\ is_cancelled = FALSE
    /\ pc = "pending"
    /\ i = 0
    /\ output_dir = NoDir
    /\ dirs \in { {}, Ancestors(OutDir) }
    /\ files = {}
    /\ events = <<>>
    /\ calls = <<>>
    /\ wrote = <<>>
    /\ cancelAt = [pc |-> "never", i |-> 0]
    /\ raised = 0
    /\ trace = <<>>
    /\ svg = Idle
    /\ REMBG_AVAILABLE = FALSE
    /\ rembg_remove_func = FALSE
    /\ pi = Idle
    /\ active_workers = {}
    /\ NoWindow

total == Len(batch)

is_batch == total > 1

\* mutant: ico is treated like png_suite
run_output_dir_SizedToDir ==
    IF is_batch \/ options.format \in {"ico", "png_suite"}
    THEN output_path
    ELSE dirname(output_path)

\* the destination directory run computes before the loop
run_output_dir ==
    IF is_batch \/ options.format = "png_suite"
    THEN output_path
    ELSE dirname(output_path)

\* the base name run computes for the item at 0-based index k
run_base_name(k) ==
    IF ~is_batch /\ options.format \in {"ico", "icns"}
    THEN splitext0(basename(output_path))
    ELSE splitext0(basename(batch[k + 1]))

\* GenerateWorker.cancel
cancel ==
    /\ is_cancelled' = TRUE
    /\ cancelAt' = IF is_cancelled THEN cancelAt ELSE [pc |-> pc, i |-> i]
    /\ UNCHANGED <<batch, output_path, options, pc, i, output_dir, dirs, files,
                   events, calls, wrote, raised, trace>>
    /\ UNCHANGED fnVars

\* run, up to the loop
RunStart ==
    /\ pc = "pending"
    /\ output_dir' = run_output_dir
    /\ pc' = "loop"
    /\ UNCHANGED <<batch, output_path, options, is_cancelled, i, dirs, files,
                   events, calls, wrote, cancelAt, raised, trace>>
    /\ UNCHANGED fnVars

\* mutant: the return after the cancelled signal is missing
RunCancelled_NoReturn ==
    /\ pc = "loop"
    /\ i < total
    /\ is_cancelled
    /\ events' = events \o
          << [sig |-> "finished", kind |-> "cancelled", total |-> 0, dir |-> NoDir],
             [sig |-> "progress", i |-> i, total |-> total,
              label |-> run_base_name(i)] >>
    /\ calls' = Append(calls, [source_path |-> batch[i + 1],
                               output_dir |-> output_dir,
                               base_name |-> run_base_name(i)])
    /\ pc' = "generate"
    /\ UNCHANGED <<batch, output_path, options, is_cancelled, i, output_dir,
                   dirs, files, wrote, cancelAt, raised, trace>>
    /\ UNCHANGED fnVars

\* run: the flag is set at the check before an item
RunCancelled ==
    /\ pc = "loop"
    /\ i < total
    /\ is_cancelled
    /\ events' = Append(events, [sig |-> "finished", kind |-> "cancelled",
                                 total |-> 0, dir |-> NoDir])
    /\ pc' = "done"
    /\ UNCHANGED <<batch, output_path, options, is_cancelled, i, output_dir,
                   dirs, files, calls, wrote, cancelAt, raised, trace>>
    /\ UNCHANGED fnVars

\* mutant: the flag is not looked at
RunItem_IgnoresCancel ==
    /\ pc = "loop"
    /\ i < total
    /\ events' = Append(events, [sig |-> "progress", i |-> i, total |-> total,
                                 label |-> run_base_name(i)])
    /\ calls' = Append(calls, [source_path |-> batch[i + 1],
                               output_dir |-> output_dir,
                               base_name |-> run_base_name(i)])
    /\ pc' = "generate"
    /\ UNCHANGED <<batch, output_path, options, is_cancelled, i, output_dir,
                   dirs, files, wrote, cancelAt, raised, trace>>
    /\ UNCHANGED fnVars

\* mutant: no progress signal is emitted
RunItem_NoProgress ==
    /\ pc = "loop"
    /\ i < total
    /\ ~is_cancelled
    /\ calls' = Append(calls, [source_path |-> batch[i + 1],
                               output_dir |-> output_dir,
                               base_name |-> run_base_name(i)])
    /\ pc' = "generate"
    /\ UNCHANGED <<batch, output_path, options, is_cancelled, i, output_dir,
                   dirs, files, events, wrote, cancelAt, raised, trace>>
    /\ UNCHANGED fnVars

\* mutant: the progress signal counts the items from one
RunItem_ProgressFromOne ==
    /\ pc = "loop"
    /\ i < total
    /\ ~is_cancelled
    /\ events' = Append(events, [sig |-> "progress", i |-> i + 1, total |-> total,
                                 label |-> run_base_name(i)])
    /\ calls' = Append(calls, [source_path |-> batch[i + 1],
                               output_dir |-> output_dir,
                               base_name |-> run_base_name(i)])
    /\ pc' = "generate"
    /\ UNCHANGED <<batch, output_path, options, is_cancelled, i, output_dir,
                   dirs, files, wrote, cancelAt, raised, trace>>
    /\ UNCHANGED fnVars

\* run: the flag is clear, the progress signal is emitted and generate called
RunItem ==
    /\ pc = "loop"
    /\ i < total
    /\ ~is_cancelled
    /\ events' = Append(events, [sig |-> "progress", i |-> i, total |-> total,
                                 label |-> run_base_name(i)])
    /\ calls' = Append(calls, [source_path |-> batch[i + 1],
                               output_dir |-> output_dir,
                               base_name |-> run_base_name(i)])
    /\ pc' = "generate"
    /\ UNCHANGED <<batch, output_path, options, is_cancelled, i, output_dir,
                   dirs, files, wrote, cancelAt, raised, trace>>
    /\ UNCHANGED fnVars

\* the result of the generate call in progress
CurrentResult ==
    generate(batch[i + 1], output_dir, run_base_name(i), options, dirs)

\* mutant: the loop skips the item after a generated one
GenerateReturn_SkipsNext ==
    /\ pc = "generate"
    /\ ~CurrentResult.raised
    /\ dirs' = CurrentResult.dirs
    /\ files' = files \cup CurrentResult.wrote
    /\ wrote' = Append(wrote, CurrentResult.wrote)
    /\ i' = IF i + 2 <= total THEN i + 2 ELSE i + 1
    /\ pc' = "loop"
    /\ trace' = Append(trace, CurrentResult.steps)
    /\ UNCHANGED <<batch, output_path, options, is_cancelled, output_dir,
                   events, calls, cancelAt, raised>>
    /\ UNCHANGED fnVars

\* run: generate returns, the loop goes on
GenerateReturn ==
    /\ pc = "generate"
    /\ ~CurrentResult.raised
    /\ dirs' = CurrentResult.dirs
    /\ files' = files \cup CurrentResult.wrote
    /\ wrote' = Append(wrote, CurrentResult.wrote)
    /\ i' = i + 1
    /\ pc' = "loop"
    /\ trace' = Append(trace, CurrentResult.steps)
    /\ UNCHANGED <<batch, output_path, options, is_cancelled, output_dir,
                   events, calls, cancelAt, raised>>
    /\ UNCHANGED fnVars

\* mutant: the exception is caught inside the loop, which goes on
GenerateRaise_Continues ==
    /\ pc = "generate"
    /\ CurrentResult.raised
    /\ dirs' = CurrentResult.dirs
    /\ events' = Append(events, [sig |-> "error", msg |-> CurrentResult.msg])
    /\ i' = i + 1
    /\ pc' = "loop"
    /\ raised' = i + 1
    /\ trace' = Append(trace, CurrentResult.steps)
    /\ UNCHANGED <<batch, output_path, options, is_cancelled, output_dir,
                   files, calls, wrote, cancelAt>>
    /\ UNCHANGED fnVars

\* run: generate raises, the except clause emits error
GenerateRaise ==
    /\ pc = "generate"
    /\ CurrentResult.raised
    /\ dirs' = CurrentResult.dirs
    /\ events' = Append(events, [sig |-> "error", msg |-> CurrentResult.msg])
    /\ pc' = "done"
    /\ raised' = i + 1
    /\ trace' = Append(trace, CurrentResult.steps)
    /\ UNCHANGED <<batch, output_path, options, is_cancelled, i, output_dir,
                   files, calls, wrote, cancelAt>>
    /\ UNCHANGED fnVars

\* mutant: the flag is looked at once more after the last item
RunCompleted_ChecksFlag ==
    /\ pc = "loop"
    /\ i = total
    /\ events' = Append(events,
          IF is_cancelled
          THEN [sig |-> "finished", kind |-> "cancelled", total |-> 0, dir |-> NoDir]
          ELSE [sig |-> "finished", kind |-> "success",
                total |-> total, dir |-> output_dir])
    /\ pc' = "done"
    /\ UNCHANGED <<batch, output_path, options, is_cancelled, i, output_dir,
                   dirs, files, calls, wrote, cancelAt, raised, trace>>
    /\ UNCHANGED fnVars

\* run: the loop is exhausted
RunCompleted ==
    /\ pc = "loop"
    /\ i = total
    /\ events' = Append(events, [sig |-> "finished", kind |-> "success",
                                 total |-> total, dir |-> output_dir])
    /\ pc' = "done"
    /\ UNCHANGED <<batch, output_path, options, is_cancelled, i, output_dir,
                   dirs, files, calls, wrote, cancelAt, raised, trace>>
    /\ UNCHANGED fnVars

Next ==
    \/ cancel
    \/ RunStart
    \/ RunCancelled
    \/ RunItem
    \/ GenerateReturn
    \/ GenerateRaise
    \/ RunCompleted

Spec == Init /\ [][Next]_vars

\* ------------------------------------------------------------ observations
\* number of signals of one kind emitted so far
NumSig(sig) == Cardinality({ k \in DOMAIN events : events[k].sig = sig })

\* the last signal emitted is finished with the given kind
LastIsFinished(kind) ==
    /\ Len(events) > 0
    /\ events[Len(events)].sig = "finished"
    /\ events[Len(events)].kind = kind

\* the files written by the first k generate calls
WroteUpTo(k) == UNION { wrote[j] : j \in 1..k }

\* ---------------------------------------------------------------- claims
\* C1: when cancel() is requested after exactly k items have been generated
\* and before the cancellation check of item k+1 (k < n), the finished job
\* has emitted exactly k progress signals, has invoked generate for the
\* first k items only, holds the files of those k items only, and ended with
\* the cancelled finished signal and no error signal.
C1_CancelBetweenItems ==
    (pc = "done" /\ cancelAt.pc \in {"pending", "loop"} /\ cancelAt.i < total) =>
        /\ NumSig("progress") = cancelAt.i
        /\ Len(calls) = cancelAt.i
        /\ Len(wrote) = cancelAt.i
        /\ files = WroteUpTo(cancelAt.i)
        /\ LastIsFinished("cancelled")
        /\ NumSig("finished") = 1
        /\ NumSig("error") = 0

C1_Witness ==
    /\ pc = "done"
    /\ total = 3
    /\ cancelAt = [pc |-> "loop", i |-> 2]
    /\ NumSig("progress") = 2
    /\ LastIsFinished("cancelled")

\* C2: when generate raises for item r, the job ends with exactly one error
\* signal that carries the message of the exception and with no finished
\* signal, and generate is invoked for no item after r.
C2_RaiseFailsBatch ==
    raised > 0 =>
        /\ pc = "done"
        /\ NumSig("error") = 1
        /\ NumSig("finished") = 0
        /\ events[Len(events)].sig = "error"
        /\ events[Len(events)].msg =
              generate(batch[raised], output_dir, run_base_name(raised - 1),
                       options, dirs).msg
        /\ events[Len(events)].msg # ""
        /\ Len(calls) = raised
        /\ Len(wrote) = raised - 1
        /\ files = WroteUpTo(raised - 1)

C2_Witness ==
    /\ raised = 2
    /\ total = 3
    /\ pc = "done"
    /\ NumSig("error") = 1

\* C3: run emits at most one terminal signal (finished or error), the
\* terminal signal is the last signal emitted, and a run that has ended has
\* emitted exactly one.
C3_OneTerminalOutcome ==
    LET term == { k \in DOMAIN events : events[k].sig \in {"finished", "error"} }
    IN  /\ Cardinality(term) <= 1
        /\ term # {} => (term = {Len(events)} /\ pc = "done")
        /\ pc = "done" => Cardinality(term) = 1

C3_Witness ==
    /\ pc = "done"
    /\ NumSig("progress") = 2
    /\ NumSig("finished") + NumSig("error") = 1

\* C4: without a cancel() and without a raising generate, the finished job
\* has invoked generate once per path of the batch, in list order, every
\* call has returned, and the one finished signal reports the count n.
C4_CompletesInOrder ==
    (pc = "done" /\ cancelAt.pc = "never" /\ raised = 0) =>
        /\ Len(calls) = total
        /\ \A k \in 1..total : calls[k].source_path = batch[k]
        /\ Len(wrote) = total
        /\ LastIsFinished("success")
        /\ events[Len(events)].total = total
        /\ NumSig("finished") = 1
        /\ NumSig("error") = 0

C4_Witness ==
    /\ pc = "done"
    /\ cancelAt.pc = "never"
    /\ raised = 0
    /\ total = 3
    /\ Len(calls) = 3

\* C5 as stated: the number of progress signals never exceeds the number of
\* items whose generate has returned.
C5_ProgressAfterCompletion == NumSig("progress") <= Len(wrote)

\* C5 amended: the progress signal of an item is emitted when its generate
\* is invoked, after the generate of the item before it has returned: the
\* number of progress signals equals the number of generate invocations and
\* exceeds the number of returned ones by one while an item is generated
\* (and after it raised), and by nothing otherwise.
C5_ProgressAtStart ==
    /\ NumSig("progress") = Len(calls)
    /\ \A k \in DOMAIN calls :
          \E e \in DOMAIN events :
              /\ events[e].sig = "progress"
              /\ events[e].i = k - 1
              /\ events[e].label = calls[k].base_name
    /\ NumSig("progress") =
          Len(wrote) + (IF pc = "generate" \/ raised > 0 THEN 1 ELSE 0)

C5_Witness ==
    /\ pc = "generate"
    /\ NumSig("progress") = 2
    /\ Len(wrote) = 1

\* C6: a cancel() that arrives while an item is generated does not
\* interrupt it: the item's generate returns and its files exist, no later
\* item is started, and the job ends cancelled, or completed when the item
\* was the last one.
C6_CancelDuringItem ==
    (pc = "done" /\ cancelAt.pc = "generate" /\ raised = 0) =>
        LET k == cancelAt.i + 1
        IN  /\ Len(calls) = k
            /\ Len(wrote) = k
            /\ wrote[k] # {}
            /\ wrote[k] \subseteq files
            /\ IF k < total
               THEN LastIsFinished("cancelled")
               ELSE LastIsFinished("success")

C6_Witness ==
    /\ pc = "done"
    /\ total = 2
    /\ cancelAt = [pc |-> "generate", i |-> 1]
    /\ Len(wrote) = 2
    /\ LastIsFinished("success")

\* C7 as stated: in a job with more than one item, or with format ico or
\* png_suite, every generate call gets output_path itself as directory.
C7_SizedOrBatchUsesOutputPath ==
    (is_batch \/ options.format \in {"ico", "png_suite"}) =>
        \A k \in DOMAIN calls : calls[k].output_dir = output_path

\* C7 amended: in a job with more than one item, or with format png_suite,
\* every generate call gets output_path itself as directory; a single-item
\* ico job gets the parent directory of output_path.
C7_DestinationDirectory ==
    \A k \in DOMAIN calls :
        /\ (is_batch \/ options.format = "png_suite") =>
              (calls[k].output_dir = output_path /\ output_path = OutDir)
        /\ (~is_batch /\ options.format = "ico") =>
              /\ calls[k].output_dir = OutDir
              /\ calls[k].output_dir # output_path
              /\ join(calls[k].output_dir, basename(output_path)) = output_path

C7_Witness ==
    /\ total = 1
    /\ options.format = "png_suite"
    /\ Len(calls) = 1
    /\ calls[1].output_dir = output_path

\* C8: a single-item icns or svg job writes its one file in the directory of
\* output_path under the base name of output_path; in a job with more than
\* one item every base name is the one of the source file.
C8_BaseNameRule ==
    /\ (total = 1 /\ options.format \in {"icns", "svg"}) =>
          \A k \in DOMAIN wrote :
              wrote[k] = { join(dirname(output_path),
                                Comp(splitext0(basename(output_path)),
                                     "." \o options.format)) }
    /\ total > 1 =>
          \A k \in DOMAIN calls :
              calls[k].base_name = splitext0(basename(batch[k]))

\* C9: a generate call for ico or png_suite with a non-empty size list that
\* returns has written one file per size, named {base}_{s}x{s} with the
\* extension of the format, in the destination directory, and nothing else.
C9_OneFilePerSize ==
    \A k \in DOMAIN wrote :
        (options.format \in {"ico", "png_suite"} /\ options.sizes # <<>>) =>
            LET ext == IF options.format = "ico" THEN ".ico" ELSE ".png"
                S == { options.sizes[j][1] : j \in DOMAIN options.sizes }
                stems == { basename(f).stem : f \in wrote[k] }
            IN  /\ Cardinality(wrote[k]) = Cardinality(S)
                /\ Cardinality(S) = Len(options.sizes)
                /\ \A f \in wrote[k] :
                      /\ dirname(f) = calls[k].output_dir
                      /\ basename(f).ext = ext
                /\ \A sz \in S :
                      (calls[k].base_name \o "_" \o ToString(sz) \o "x" \o ToString(sz))
                          \in stems
                /\ (S = {16, 32} /\ calls[k].base_name = "a") =>
                      stems = {"a_16x16", "a_32x32"}

C9_Witness ==
    /\ options.format = "ico"
    /\ options.sizes = << <<16, 16>>, <<32, 32>> >>
    /\ Len(wrote) >= 1
    /\ calls[1].base_name = "a"
    /\ { basename(f).stem : f \in wrote[1] } = {"a_16x16", "a_32x32"}

\* C10: with an empty size list a generate call for ico or png_suite raises
\* and writes no file; an icns call, whose size list is empty, raises only
\* when the source cannot be decoded and else writes its one file.
C10_EmptySizes ==
    /\ (options.format \in {"ico", "png_suite"} /\ options.sizes = <<>>) =>
          /\ wrote = <<>>
          /\ files = {}
          /\ (Len(calls) > 0 /\ pc # "generate") =>
                (raised = 1 /\ pc = "done" /\ events[Len(events)].sig = "error")
    /\ options.format = "icns" =>
          /\ options.sizes = <<>>
          /\ raised > 0 =>
                /\ batch[raised] \in Unreadable
                /\ events[Len(events)].msg = "cannot identify image file"
          /\ \A k \in DOMAIN wrote :
                wrote[k] = { join(calls[k].output_dir,
                                  Comp(calls[k].base_name, ".icns")) }

C10_Witness ==
    /\ options.format = "ico"
    /\ options.sizes = <<>>
    /\ raised = 1
    /\ files = {}
    /\ events[Len(events)].sig = "error"
    /\ events[Len(events)].msg = "ico needs at least one size"

\* the operations in the sequence st
StepSet(st) == { st[k] : k \in DOMAIN st }

\* C11: a generate call with format svg on a source whose name does not end
\* in .svg, whatever the case of the letters, raises before the source is
\* opened: it goes through neither _generate_svg nor process_image and
\* writes no file; a source named .SVG is accepted as an svg source.
C11_SvgNeedsSvgSource ==
    \A k \in DOMAIN trace :
        options.format = "svg" =>
            IF basename(calls[k].source_path).ext \in {".svg", ".SVG"}
            THEN "_generate_svg" \in StepSet(trace[k])
            ELSE /\ raised = k
                 /\ events[Len(events)] =
                       [sig |-> "error", msg |-> "svg output needs an svg source"]
                 /\ StepSet(trace[k]) \cap
                       {"open_source", "_generate_svg", "process_image"} = {}
                 /\ Len(wrote) = k - 1
                 /\ files = WroteUpTo(k - 1)

C11_Witness ==
    /\ options.format = "svg"
    /\ raised = 2
    /\ Len(trace) = 2
    /\ basename(calls[1].source_path).ext = ".SVG"
    /\ basename(calls[2].source_path).ext = ".png"
    /\ Cardinality(files) = 1

\* ================================================================ SpecSvg
\* IconGenerator._generate_svg on the text of the source.  The text is a
\* sequence of tokens: "fill=", "stroke=", the double quote "Q", and pieces
\* of text without a quote; no token but "none" and "url" begins with the
\* letters none or url.

\* longest document, in attributes and pieces of text
MaxItems == 3

\* options.get('color_overlay', '#000000')
OverlayColor == "#000000"

\* the attribute values of the documents
SvgValues ==
    { <<>>, <<"none">>, <<"url", "(#g)">>, <<"red">>, <<"none", "x">> }

\* the attributes and the pieces of text of the documents
SvgItems ==
    { [kind |-> "attr", name |-> n, value |-> v] :
        n \in {"fill=", "stroke="}, v \in SvgValues }
    \cup { [kind |-> "text", name |-> " ", value |-> <<>>] }

SvgDocs == UNION { [1..n -> SvgItems] : n \in 1..MaxItems }

\* the text of one item
ItemText(it) ==
    IF it.kind = "attr" THEN <<it.name, "Q">> \o it.value \o <<"Q">> ELSE <<it.name>>

RECURSIVE DocText(_)
\* the text of a document: f.read()
DocText(doc) ==
    IF doc = <<>> THEN <<>> ELSE ItemText(Head(doc)) \o DocText(Tail(doc))

RECURSIVE NextQuote(_, _)
\* the position of the first quote of t at or after p, or 0
NextQuote(t, p) ==
    IF p > Len(t) THEN 0 ELSE IF t[p] = "Q" THEN p ELSE NextQuote(t, p + 1)

\* the pattern name"(?!(none|url))[^"]+" matched at position p of t: the
\* position of the closing quote, or 0 when there is no match at p
MatchEnd(name, t, p) ==
    IF /\ t[p] = name
       /\ p + 2 <= Len(t)
       /\ t[p + 1] = "Q"
       /\ t[p + 2] \notin {"none", "url"}
       /\ t[p + 2] # "Q"
    THEN NextQuote(t, p + 3)
    ELSE 0

RECURSIVE SubFrom(_, _, _, _)
\* re.sub of the pattern by name"new_color", from position p on
SubFrom(name, new_color, t, p) ==
    IF p > Len(t) THEN <<>>
    ELSE IF MatchEnd(name, t, p) > 0
         THEN <<name, "Q", new_color, "Q">>
                 \o SubFrom(name, new_color, t, MatchEnd(name, t, p) + 1)
         ELSE <<t[p]>> \o SubFrom(name, new_color, t, p + 1)

\* the text _generate_svg writes: a copy without colour overlay, else the
\* text after the fill and then the stroke substitution
svg_output(text, color_overlay_enabled, new_color) ==
    IF ~color_overlay_enabled
    THEN text
    ELSE SubFrom("stroke=", new_color, SubFrom("fill=", new_color, text, 1), 1)

\* no worker
NoWorker ==
    /\ batch = <<>>
    /\ options = [format |-> "svg", sizes |-> <<>>]
    /\ output_path = NoDir
    /\ is_cancelled = FALSE
    /\ pc = "none"
    /\ i = 0
    /\ output_dir = NoDir
    /\ dirs = {}
    /\ files = {}
    /\ events = <<>>
    /\ calls = <<>>
    /\ wrote = <<>>
    /\ cancelAt = [pc |-> "never", i |-> 0]
    /\ raised = 0
    /\ trace = <<>>

InitSvg ==
    /\ NoWorker
    /\ svg = Idle
    /\ REMBG_AVAILABLE = FALSE
    /\ rembg_remove_func = FALSE
    /\ pi = Idle
    /\ active_workers = {}
    /\ NoWindow

\* one call of _generate_svg
GenerateSvg ==
    /\ svg = Idle
    /\ \E doc \in SvgDocs, en \in BOOLEAN :
          svg' = [phase |-> "done", doc |-> doc, color_overlay_enabled |-> en,
                  out |-> svg_output(DocText(doc), en, OverlayColor)]
    /\ UNCHANGED <<workerVars, REMBG_AVAILABLE, rembg_remove_func, pi,
                   active_workers, windowVars>>

NextSvg == GenerateSvg

SpecSvg == InitSvg /\ [][NextSvg]_vars

\* the item as C12 wants it recoloured
C12_Recolored(it) ==
    IF it.kind = "attr" /\ it.value \notin { <<"none">>, <<"url", "(#g)">> }
    THEN [it EXCEPT !.value = <<OverlayColor>>]
    ELSE it

\* C12: with colour overlay, the text written is the source text in which
\* the value of every fill and stroke attribute other than none and
\* url(...) is the overlay colour, and nothing else is changed.
C12_RecolorsAllButNoneAndUrl ==
    (svg.phase = "done" /\ svg.color_overlay_enabled) =>
        svg.out = DocText([k \in DOMAIN svg.doc |-> C12_Recolored(svg.doc[k])])

\* ================================================================ SpecImg
\* IconGenerator.process_image on small RGBA images.  A pixel is a tuple
\* <<r, g, b, a>> of bytes, an image a record [w, h, px] whose px maps the
\* coordinates <<x, y>> to pixels.

\* largest width and height of a source image
MaxDim == 2
\* largest number of stages one options record enables
MaxEnabled == 2

\* the pixels of the source images: transparent, opaque, half transparent
Palette == << <<0, 0, 0, 0>>, <<255, 0, 0, 255>>, <<0, 0, 255, 128>> >>

Coords(w, h) == (0..(w - 1)) \X (0..(h - 1))

\* Pillow computes every pixel of a result before the operation returns: the
\* value is v itself, compared so that it is computed once and then kept
computed(v) == IF v = v THEN v ELSE v

\* Image.new(mode, (w, h), pixel)
NewImage(w, h, pixel) == [w |-> w, h |-> h, px |-> [xy \in Coords(w, h) |-> pixel]]

\* the source images: every size up to MaxDim, the palette laid out in
\* diagonal stripes from each of its colours
SourceImages ==
    { [w |-> w, h |-> h,
       px |-> [xy \in Coords(w, h) |->
                 Palette[((xy[1] + 2 * xy[2] + k) % Len(Palette)) + 1]]] :
        w \in 1..MaxDim, h \in 1..MaxDim, k \in 0..(Len(Palette) - 1) }

\* the macro DIV255 of Pillow's paste
DIV255(a) == (((a + 128) \div 256) + (a + 128)) \div 256

\* the macro BLEND8 of Pillow's paste
BLEND8(mask, in1, in2) == DIV255(in1 * (255 - mask) + in2 * mask)

\* img.getchannel('A')
getchannel_A(img) == [xy \in Coords(img.w, img.h) |-> img.px[xy][4]]

\* dst.paste(src, pos, mask): every band of the pixels of dst that src
\* covers is blended with src by the mask value, the rest of dst is kept
paste(dst, src, pos, mask) ==
    [dst EXCEPT !.px =
        computed([xy \in Coords(dst.w, dst.h) |->
            LET sxy == <<xy[1] - pos[1], xy[2] - pos[2]>>
            IN  IF sxy \in Coords(src.w, src.h)
                THEN [c \in 1..4 |-> BLEND8(mask[sxy], dst.px[xy][c], src.px[sxy][c])]
                ELSE dst.px[xy]])]

\* an opaque colour as a pixel: Image.new("RGBA", size, '#rrggbb')
Opaque(rgb) == <<rgb[1], rgb[2], rgb[3], 255>>

\* Image.blend(degenerate, image, 1 + pct/100) on one band
blend8(d, c, pct) ==
    LET v == 100 * d + (100 + pct) * (c - d)
    IN  IF v <= 0 THEN 0 ELSE IF v >= 25500 THEN 255 ELSE v \div 100

\* convert("L") of one pixel
luma(p) == (p[1] * 19595 + p[2] * 38470 + p[3] * 7471 + 32768) \div 65536

RECURSIVE SumLuma(_, _)
\* the sum of the luma of the pixels at the coordinates in S
SumLuma(img, S) ==
    IF S = {} THEN 0
    ELSE LET xy == CHOOSE c \in S : TRUE
         IN  luma(img.px[xy]) + SumLuma(img, S \ {xy})

\* int(ImageStat.Stat(image.convert("L")).mean[0] + 0.5)
mean_luma(img) ==
    LET n == img.w * img.h
    IN  (2 * SumLuma(img, Coords(img.w, img.h)) + n) \div (2 * n)

\* ImageEnhance.X(img).enhance(1 + pct/100): the colour bands are blended
\* with the degenerate image, the alpha band is kept
enhance(img, kind, pct) ==
    LET m == mean_luma(img)
        deg(p) == IF kind = "Brightness" THEN 0
                  ELSE IF kind = "Contrast" THEN m
                  ELSE luma(p)
    IN  [img EXCEPT !.px =
            [xy \in Coords(img.w, img.h) |->
                LET p == img.px[xy]
                IN  <<blend8(deg(p), p[1], pct), blend8(deg(p), p[2], pct),
                      blend8(deg(p), p[3], pct), p[4]>>]]

\* the external hook rembg.remove: the pixels of the colour of the corner
\* pixel are taken for background and cleared
remove_func(img) ==
    [img EXCEPT !.px =
        [xy \in Coords(img.w, img.h) |->
            IF img.px[xy] = img.px[<<0, 0>>] THEN <<0, 0, 0, 0>> ELSE img.px[xy]]]

\* ------------------------------------------------- the stages of the chain
\* the state of one process_image call: the image img is bound to, the
\* caller's source image, whether both names denote one object, the stages
\* run so far and the number of calls of the hook
\* img = source_img.copy().convert("RGBA")
stage_copy(source_img) ==
    [img |-> source_img, src |-> source_img, alias |-> FALSE,
     trace |-> <<>>, hook_calls |-> 0]

\* img = <a new image>
Rebind(s, new_img, stage) ==
    [s EXCEPT !.img = computed(new_img), !.alias = FALSE, !.trace = Append(@, stage)]

\* img.paste(...) and img.putalpha(...): the object img denotes is changed
InPlace(s, new_img, stage) ==
    [s EXCEPT !.img = computed(new_img),
              !.src = IF s.alias THEN new_img ELSE @,
              !.trace = Append(@, stage)]

\* stage 1: brightness, contrast and saturation, each when its factor # 1.0
stage_correction(s, o) ==
    LET s1 == IF o.adv_brightness # 0
              THEN Rebind(s, enhance(s.img, "Brightness", o.adv_brightness),
                          "brightness")
              ELSE s
        s2 == IF o.adv_contrast # 0
              THEN Rebind(s1, enhance(s1.img, "Contrast", o.adv_contrast), "contrast")
              ELSE s1
    IN  IF o.adv_saturation # 0
        THEN Rebind(s2, enhance(s2.img, "Color", o.adv_saturation), "saturation")
        ELSE s2

\* stage 2: the hook, whose exception is caught
stage_remove_bg_KeepsPartial(s, o, avail, hook, hook_raises) ==
    IF o.remove_bg /\ avail /\ hook
    THEN [Rebind(s, remove_func(s.img), "remove_bg") EXCEPT !.hook_calls = @ + 1]
    ELSE s

stage_remove_bg_IgnoresOption(s, o, avail, hook, hook_raises) ==
    IF avail /\ hook
    THEN IF hook_raises
         THEN [s EXCEPT !.trace = Append(@, "remove_bg"), !.hook_calls = @ + 1]
         ELSE [Rebind(s, remove_func(s.img), "remove_bg") EXCEPT !.hook_calls = @ + 1]
    ELSE s

stage_remove_bg(s, o, avail, hook, hook_raises) ==
    IF o.remove_bg /\ avail /\ hook
    THEN IF hook_raises
         THEN [s EXCEPT !.trace = Append(@, "remove_bg"), !.hook_calls = @ + 1]
         ELSE [Rebind(s, remove_func(s.img), "remove_bg") EXCEPT !.hook_calls = @ + 1]
    ELSE s

\* options['bg_color'] is None
NoColor == <<>>

\* stage 3: the image pasted on an opaque canvas, its alpha as mask
stage_bg_fill(s, o) ==
    IF o.bg_color # NoColor
    THEN Rebind(s, paste(NewImage(s.img.w, s.img.h, Opaque(o.bg_color)),
                         s.img, <<0, 0>>, getchannel_A(s.img)),
                "bg_fill")
    ELSE s

\* stage 4: the flat colour pasted into the image, its alpha as mask
stage_overlay(s, o) ==
    IF o.color_overlay_enabled
    THEN InPlace(s, paste(s.img, NewImage(s.img.w, s.img.h, Opaque(o.color_overlay)),
                          <<0, 0>>, getchannel_A(s.img)),
                 "overlay")
    ELSE s

Clamp(v, lo, hi) == IF v < lo THEN lo ELSE IF v > hi THEN hi ELSE v

RECURSIVE SumOver(_, _)
\* the sum of the function f over the set S of its arguments
SumOver(f, S) ==
    IF S = {} THEN 0
    ELSE LET e == CHOOSE c \in S : TRUE IN f[e] + SumOver(f, S \ {e})

\* alpha.filter(ImageFilter.GaussianBlur(r)): the copy for r = 0; for r > 0
\* the mean over the window of side 2r+1, the edge pixels repeated (Pillow
\* approximates the Gaussian by box blurs)
GaussianBlur(mask, w, h, r) ==
    IF r = 0 THEN mask
    ELSE [xy \in Coords(w, h) |->
            LET win == ((-r)..r) \X ((-r)..r)
                at == [d \in win |-> mask[<<Clamp(xy[1] + d[1], 0, w - 1),
                                           Clamp(xy[2] + d[2], 0, h - 1)>>]]
            IN  SumOver(at, win) \div ((2 * r + 1) * (2 * r + 1))]

\* the largest member of a non-empty set of numbers
Max(S) == CHOOSE m \in S : \A e \in S : e <= m

\* alpha.filter(ImageFilter.MaxFilter(3)): the result has the size of alpha
MaxFilter3(mask, w, h) ==
    [xy \in Coords(w, h) |->
        Max({ mask[<<Clamp(xy[1] + dx, 0, w - 1), Clamp(xy[2] + dy, 0, h - 1)>>] :
                dx \in -1..1, dy \in -1..1 })]

RECURSIVE MaxFilterN(_, _, _, _)
\* for _ in range(width): stroke_alpha = stroke_alpha.filter(MaxFilter(3))
MaxFilterN(mask, w, h, width) ==
    IF width <= 0 THEN mask
    ELSE MaxFilterN(computed(MaxFilter3(mask, w, h)), w, h, width - 1)

Abs(v) == IF v < 0 THEN -v ELSE v

Transparent == <<0, 0, 0, 0>>

fx_canvas_size_NoAbs(img, o) ==
    <<img.w + o.adv_shadow_offset_x + o.adv_shadow_blur * 2,
      img.h + o.adv_shadow_offset_y + o.adv_shadow_blur * 2>>

\* the size of the shadow canvas:
\* (img.width + abs(offset_x) + blur*2, img.height + abs(offset_y) + blur*2)
fx_canvas_size(img, o) ==
    <<img.w + Abs(o.adv_shadow_offset_x) + o.adv_shadow_blur * 2,
      img.h + Abs(o.adv_shadow_offset_y) + o.adv_shadow_blur * 2>>

shadow_paste_pos_NoSignTest(o) ==
    <<o.adv_shadow_blur + o.adv_shadow_offset_x,
      o.adv_shadow_blur + o.adv_shadow_offset_y>>

\* (blur + (offset_x if offset_x > 0 else 0), blur + (offset_y if offset_y > 0 else 0))
shadow_paste_pos(o) ==
    <<o.adv_shadow_blur + (IF o.adv_shadow_offset_x > 0 THEN o.adv_shadow_offset_x ELSE 0),
      o.adv_shadow_blur + (IF o.adv_shadow_offset_y > 0 THEN o.adv_shadow_offset_y ELSE 0)>>

\* (blur - (offset_x if offset_x < 0 else 0), blur - (offset_y if offset_y < 0 else 0))
img_paste_pos(o) ==
    <<o.adv_shadow_blur - (IF o.adv_shadow_offset_x < 0 THEN o.adv_shadow_offset_x ELSE 0),
      o.adv_shadow_blur - (IF o.adv_shadow_offset_y < 0 THEN o.adv_shadow_offset_y ELSE 0)>>

\* stage 5, mode shadow
fx_shadow(img, o) ==
    LET alpha == getchannel_A(img)
        shadow == NewImage(img.w, img.h, Opaque(o.adv_shadow_color))
        shadow_alpha == GaussianBlur(alpha, img.w, img.h, o.adv_shadow_blur)
        fx_canvas == NewImage(fx_canvas_size(img, o)[1], fx_canvas_size(img, o)[2],
                              Transparent)
    IN  paste(paste(fx_canvas, shadow, shadow_paste_pos(o), shadow_alpha),
              img, img_paste_pos(o), alpha)

fx_stroke_GrowsCanvas(img, o) ==
    LET k == o.adv_stroke_width
        alpha == getchannel_A(img)
        grown == paste(NewImage(img.w + 2 * k, img.h + 2 * k, Transparent), img,
                       <<k, k>>, alpha)
        stroke_alpha == MaxFilterN(getchannel_A(grown), grown.w, grown.h, k)
        stroke == NewImage(grown.w, grown.h, Opaque(o.adv_stroke_color))
        fx_canvas == NewImage(grown.w, grown.h, Transparent)
    IN  paste(paste(fx_canvas, stroke, <<0, 0>>, stroke_alpha), grown, <<0, 0>>,
              getchannel_A(grown))

\* stage 5, mode stroke
fx_stroke(img, o) ==
    LET alpha == getchannel_A(img)
        stroke_alpha == MaxFilterN(alpha, img.w, img.h, o.adv_stroke_width)
        stroke == NewImage(img.w, img.h, Opaque(o.adv_stroke_color))
        fx_canvas == NewImage(img.w, img.h, Transparent)
    IN  paste(paste(fx_canvas, stroke, <<0, 0>>, stroke_alpha), img, <<0, 0>>, alpha)

\* stage 5: shadow or stroke
stage_fx(s, o) ==
    IF ~o.adv_fx_enabled THEN s
    ELSE IF o.adv_fx_mode = "shadow" THEN Rebind(s, fx_shadow(s.img, o), "shadow")
    ELSE IF o.adv_fx_mode = "stroke" THEN Rebind(s, fx_stroke(s.img, o), "stroke")
    ELSE s

Min2(a, b) == IF a < b THEN a ELSE b

Max2(a, b) == IF a > b THEN a ELSE b

\* mutant: the stage also runs with padding 0
stage_padding_AlsoZero(s, o) ==
    LET target_size_inner == Max2(s.img.w, s.img.h)
        new_size == (100 * target_size_inner) \div (100 - o.padding)
        paste_pos == <<(new_size - s.img.w) \div 2, (new_size - s.img.h) \div 2>>
    IN  Rebind(s, paste(NewImage(new_size, new_size, Transparent), s.img, paste_pos,
                        getchannel_A(s.img)),
               "padding")

\* stage 6: the image pasted in the middle of a transparent square of side
\* int(max(w, h) / (1 - padding/100))
stage_padding(s, o) ==
    IF o.padding > 0
    THEN LET target_size_inner == Max2(s.img.w, s.img.h)
             new_size == (100 * target_size_inner) \div (100 - o.padding)
             paste_pos == <<(new_size - s.img.w) \div 2, (new_size - s.img.h) \div 2>>
         IN  Rebind(s, paste(NewImage(new_size, new_size, Transparent), s.img,
                             paste_pos, getchannel_A(s.img)),
                    "padding")
    ELSE s

\* the watermark paths for which os.path.exists holds
ExistingPaths == {"corrupt.png", "wm.png"}

\* the watermark paths Image.open can decode
DecodablePaths == {"wm.png"}

\* Image.open("wm.png").convert("RGBA"): one colour all over, so that the
\* resized watermark has that colour all over too
WatermarkImage == NewImage(1, 2, <<0, 255, 0, 255>>)

\* the keys of pos_map
PosNames ==
    { "top_left", "top_center", "top_right", "mid_left", "center", "mid_right",
      "bottom_left", "bottom_center", "bottom_right" }

\* pos_map[name] for a canvas of w x h and a watermark of ww x wh
pos_map(name, w, h, ww, wh) ==
    LET px == IF name \in {"top_left", "mid_left", "bottom_left"} THEN 0
              ELSE IF name \in {"top_center", "center", "bottom_center"}
                   THEN (w - ww) \div 2
                   ELSE w - ww
        py == IF name \in {"top_left", "top_center", "top_right"} THEN 0
              ELSE IF name \in {"mid_left", "center", "mid_right"}
                   THEN (h - wh) \div 2
                   ELSE h - wh
    IN  <<px, py>>

\* stage 7: the watermark; every exception after os.path.exists is caught
stage_watermark_NoDecodeCheck(s, o) ==
    IF ~(o.adv_watermark_enabled /\ o.adv_watermark_path # "") THEN s
    ELSE IF o.adv_watermark_path \notin ExistingPaths THEN s
    ELSE LET base_size == Min2(s.img.w, s.img.h)
             new_wm_width == (base_size * o.adv_watermark_size) \div 100
             new_wm_height == (new_wm_width * WatermarkImage.h) \div WatermarkImage.w
             a0 == WatermarkImage.px[<<0, 0>>]
             a1 == IF o.adv_watermark_opacity < 100
                   THEN <<a0[1], a0[2], a0[3], (a0[4] * o.adv_watermark_opacity) \div 100>>
                   ELSE a0
         IN  IF new_wm_width <= 0 \/ new_wm_height <= 0 THEN s
             ELSE IF o.adv_watermark_pos \notin PosNames THEN s
             ELSE LET watermark == NewImage(new_wm_width, new_wm_height, a1)
                  IN  InPlace(s, paste(s.img, watermark,
                                       pos_map(o.adv_watermark_pos, s.img.w, s.img.h,
                                               new_wm_width, new_wm_height),
                                       getchannel_A(watermark)),
                              "watermark")

stage_watermark(s, o) ==
    IF ~(o.adv_watermark_enabled /\ o.adv_watermark_path # "") THEN s
    ELSE IF o.adv_watermark_path \notin ExistingPaths THEN s
    ELSE IF o.adv_watermark_path \notin DecodablePaths THEN s
    ELSE LET base_size == Min2(s.img.w, s.img.h)
             new_wm_width == (base_size * o.adv_watermark_size) \div 100
             new_wm_height == (new_wm_width * WatermarkImage.h) \div WatermarkImage.w
             a0 == WatermarkImage.px[<<0, 0>>]
             a1 == IF o.adv_watermark_opacity < 100
                   THEN <<a0[1], a0[2], a0[3], (a0[4] * o.adv_watermark_opacity) \div 100>>
                   ELSE a0
         IN  IF new_wm_width <= 0 \/ new_wm_height <= 0 THEN s
             ELSE IF o.adv_watermark_pos \notin PosNames THEN s
             ELSE LET watermark == NewImage(new_wm_width, new_wm_height, a1)
                  IN  InPlace(s, paste(s.img, watermark,
                                       pos_map(o.adv_watermark_pos, s.img.w, s.img.h,
                                               new_wm_width, new_wm_height),
                                       getchannel_A(watermark)),
                              "watermark")

\* draw.rounded_rectangle((0, 0) + img.size, radius, fill=255) at <<x, y>>:
\* inside the box but for what lies beyond the quarter circles of the corners
InRoundedRect(xy, w, h, radius) ==
    LET cx == IF xy[1] < radius THEN radius
              ELSE IF xy[1] > w - radius THEN w - radius ELSE xy[1]
        cy == IF xy[2] < radius THEN radius
              ELSE IF xy[2] > h - radius THEN h - radius ELSE xy[2]
    IN  (xy[1] - cx) * (xy[1] - cx) + (xy[2] - cy) * (xy[2] - cy) <= radius * radius

\* stage 8: the alpha band is replaced by the rounded-rectangle mask
stage_rounding(s, o) ==
    LET radius == (Min2(s.img.w, s.img.h) * o.radius) \div 200
    IN  IF o.radius > 0 /\ radius > 0
        THEN InPlace(s, [s.img EXCEPT !.px =
                            [xy \in Coords(s.img.w, s.img.h) |->
                                <<s.img.px[xy][1], s.img.px[xy][2], s.img.px[xy][3],
                                  IF InRoundedRect(xy, s.img.w, s.img.h, radius)
                                  THEN 255 ELSE 0>>]],
                     "rounding")
        ELSE s

process_image_WatermarkBeforePadding(source_img, o, hook, avail, hook_raises) ==
    stage_rounding(stage_padding(stage_watermark(stage_fx(stage_overlay(stage_bg_fill(
      stage_remove_bg(stage_correction(stage_copy(source_img), o), o, avail, hook,
                      hook_raises), o), o), o), o), o), o)

\* IconGenerator.process_image, with the module-level flag as argument
process_image(source_img, o, hook, avail, hook_raises) ==
    stage_rounding(
      stage_watermark(
        stage_padding(
          stage_fx(
            stage_overlay(
              stage_bg_fill(
                stage_remove_bg(
                  stage_correction(stage_copy(source_img), o),
                  o, avail, hook, hook_raises),
                o),
              o),
            o),
          o),
        o),
      o)

\* ------------------------------------------------------ the options records
White == <<255, 255, 255>>

Green == <<0, 255, 0>>

Black == <<0, 0, 0>>

\* the groups of options that enable a stage
StageGroups ==
    { "correction", "remove_bg", "bg_fill", "overlay", "fx", "padding",
      "watermark", "rounding" }

\* the effect settings: offsets of either sign with and without blur for the
\* shadow, two widths for the stroke
FxSettings ==
    { [mode |-> "shadow", blur |-> t[1], offset_x |-> t[2], offset_y |-> t[3],
       width |-> 2] : t \in { <<0, 1, -1>>, <<1, -1, 0>> } }
    \cup { [mode |-> "stroke", blur |-> 5, offset_x |-> 5, offset_y |-> 5,
            width |-> k] : k \in 1..2 }

\* the watermark settings: no path, a path that does not exist, a file that
\* does not decode, and the file that loads at a size that may round to zero,
\* at no recognised position and at a corner
WatermarkSettings ==
    { [path |-> p, pos |-> "center", size |-> 50, opacity |-> 50] :
        p \in {"", "missing.png", "corrupt.png"} }
    \cup { [path |-> "wm.png", pos |-> "top_left", size |-> 20, opacity |-> 50],
           [path |-> "wm.png", pos |-> "nowhere", size |-> 50, opacity |-> 100],
           [path |-> "wm.png", pos |-> "bottom_right", size |-> 50, opacity |-> 50] }

\* the options records that enable the stages of the groups in E; a stage
\* that is not enabled keeps the parameters the window gives it
OptionsFor(E) ==
    { [adv_brightness |-> c[1], adv_contrast |-> c[2], adv_saturation |-> c[3],
       remove_bg |-> "remove_bg" \in E,
       bg_color |-> IF "bg_fill" \in E THEN White ELSE NoColor,
       color_overlay_enabled |-> "overlay" \in E,
       color_overlay |-> Green,
       adv_fx_enabled |-> "fx" \in E,
       adv_fx_mode |-> f.mode,
       adv_shadow_color |-> Black,
       adv_shadow_blur |-> f.blur,
       adv_shadow_offset_x |-> f.offset_x,
       adv_shadow_offset_y |-> f.offset_y,
       adv_stroke_color |-> White,
       adv_stroke_width |-> f.width,
       padding |-> pd,
       adv_watermark_enabled |-> "watermark" \in E,
       adv_watermark_path |-> wm.path,
       adv_watermark_pos |-> wm.pos,
       adv_watermark_size |-> wm.size,
       adv_watermark_opacity |-> wm.opacity,
       radius |-> rd] :
        c \in (IF "correction" \in E
               THEN { <<50, 0, 0>>, <<50, -50, 100>> }
               ELSE { <<0, 0, 0>> }),
        f \in (IF "fx" \in E
               THEN FxSettings
               ELSE { [mode |-> "shadow", blur |-> 5, offset_x |-> 5, offset_y |-> 5,
                       width |-> 2] }),
        pd \in (IF "padding" \in E THEN {20, 50} ELSE {0}),
        wm \in (IF "watermark" \in E
                THEN WatermarkSettings
                ELSE { [path |-> "wm.png", pos |-> "bottom_right", size |-> 50,
                        opacity |-> 50] }),
        rd \in (IF "rounding" \in E THEN {100} ELSE {0}) }

\* the options records with at most MaxEnabled stages enabled
ImgOptions ==
    UNION { OptionsFor(E) :
              E \in { G \in SUBSET StageGroups : Cardinality(G) <= MaxEnabled } }

\* ---------------------------------------------------------------- SpecImg
InitImg ==
    /\ NoWorker
    /\ svg = Idle
    /\ REMBG_AVAILABLE = FALSE
    /\ rembg_remove_func = FALSE
    /\ pi = Idle
    /\ active_workers = {"RembgInitializer"}
    /\ NoWindow

\* IconForgeWindow._on_rembg_initialized, the slot of the one initializer
on_rembg_initialized ==
    /\ "RembgInitializer" \in active_workers
    /\ \E success \in BOOLEAN :
          IF success
          THEN REMBG_AVAILABLE' = TRUE /\ rembg_remove_func' = TRUE
          ELSE REMBG_AVAILABLE' = FALSE /\ UNCHANGED rembg_remove_func
    /\ active_workers' = active_workers \ {"RembgInitializer"}
    /\ UNCHANGED <<workerVars, svg, pi, windowVars>>

\* one call process_image(source_img, options, self.rembg_remove_func)
ProcessImage ==
    /\ pi = Idle
    /\ \E source_img \in SourceImages, o \in ImgOptions :
         \E hook_raises \in (IF o.remove_bg /\ REMBG_AVAILABLE /\ rembg_remove_func
                             THEN BOOLEAN ELSE {FALSE}) :
            pi' = [phase |-> "done", source_img |-> source_img, options |-> o,
                   hook |-> rembg_remove_func, avail |-> REMBG_AVAILABLE,
                   hook_raises |-> hook_raises,
                   result |-> process_image(source_img, o, rembg_remove_func,
                                            REMBG_AVAILABLE, hook_raises)]
    /\ UNCHANGED <<workerVars, svg, REMBG_AVAILABLE, rembg_remove_func,
                   active_workers, windowVars>>

NextImg ==
    \/ on_rembg_initialized
    \/ ProcessImage

SpecImg == InitImg /\ [][NextImg]_vars

\* ------------------------------------------- observations of the call
\* the call pi records has returned
Returned == pi.phase = "done"

\* the stages the call ran
StagesRun == { pi.result.trace[k] : k \in 1..Len(pi.result.trace) }

\* the call as it reaches the background fill, the overlay, the effect, the
\* padding, the watermark and the rounding
before_bg_fill ==
    stage_remove_bg(stage_correction(stage_copy(pi.source_img), pi.options),
                    pi.options, pi.avail, pi.hook, pi.hook_raises)

before_overlay == stage_bg_fill(before_bg_fill, pi.options)

before_fx == stage_overlay(before_overlay, pi.options)

before_padding == stage_fx(before_fx, pi.options)

before_watermark == stage_padding(before_padding, pi.options)

before_rounding == stage_watermark(before_watermark, pi.options)

\* every stage is disabled
AllDisabled(o) ==
    /\ o.adv_brightness = 0 /\ o.adv_contrast = 0 /\ o.adv_saturation = 0
    /\ ~o.remove_bg
    /\ o.bg_color = NoColor
    /\ ~o.color_overlay_enabled
    /\ ~o.adv_fx_enabled
    /\ o.padding = 0
    /\ ~o.adv_watermark_enabled
    /\ o.radius = 0

\* C13: with every stage disabled process_image returns an image of the
\* size and with the pixels of its input, and the input is as it was.
C13_PassThrough ==
    (Returned /\ AllDisabled(pi.options)) =>
        /\ pi.result.img = pi.source_img
        /\ pi.result.src = pi.source_img

C13_Witness ==
    /\ Returned
    /\ AllDisabled(pi.options)
    /\ pi.source_img.w # pi.source_img.h
    /\ pi.result.img = pi.source_img

\* the place of a stage in the order of C14
StageRank(st) ==
    CASE st = "brightness" -> 1
      [] st = "contrast" -> 2
      [] st = "saturation" -> 3
      [] st = "remove_bg" -> 4
      [] st = "bg_fill" -> 5
      [] st = "overlay" -> 6
      [] st \in {"shadow", "stroke"} -> 7
      [] st = "padding" -> 8
      [] st = "watermark" -> 9
      [] st = "rounding" -> 10

\* C14: the stages of one call run in the order correction, background
\* removal, background fill, overlay, effect, padding, watermark, rounding,
\* each at most once; when padding runs, its square canvas is the canvas
\* the watermark and the rounding work on and the call returns.
C14_FixedOrder ==
    Returned =>
        /\ \A a, b \in 1..Len(pi.result.trace) :
              a < b => StageRank(pi.result.trace[a]) < StageRank(pi.result.trace[b])
        /\ ("padding" \in StagesRun) = (pi.options.padding > 0)
        /\ "padding" \in StagesRun => pi.result.img.w = pi.result.img.h

C14_Witness ==
    /\ Returned
    /\ {"padding", "watermark"} \subseteq StagesRun
    /\ pi.source_img.w # pi.source_img.h

\* C15: when the hook raises, the call returns what the same call with
\* remove_bg disabled returns.
C15_HookFailureSkipsStage ==
    (Returned /\ pi.hook_raises) =>
        pi.result.img =
            process_image(pi.source_img, [pi.options EXCEPT !.remove_bg = FALSE],
                          pi.hook, pi.avail, FALSE).img

C15_Witness ==
    /\ Returned
    /\ pi.hook_raises
    /\ pi.result.hook_calls = 1
    /\ "padding" \in StagesRun
    /\ remove_func(pi.source_img) # pi.source_img

WatermarkFails ==
    LET o == pi.options
        off == process_image(pi.source_img, [o EXCEPT !.adv_watermark_enabled = FALSE],
                             pi.hook, pi.avail, pi.hook_raises).img
        new_wm_width == (Min2(off.w, off.h) * o.adv_watermark_size) \div 100
        new_wm_height == (new_wm_width * WatermarkImage.h) \div WatermarkImage.w
    IN  \/ o.adv_watermark_path = ""
        \/ o.adv_watermark_path \notin ExistingPaths
        \/ o.adv_watermark_path \notin DecodablePaths
        \/ new_wm_width <= 0
        \/ new_wm_height <= 0
        \/ o.adv_watermark_pos \notin PosNames

\* C17: a watermark that is enabled and fails leaves the call with the
\* result of the same call with the watermark disabled.
C17_FailedWatermarkSkipped ==
    (Returned /\ pi.options.adv_watermark_enabled /\ WatermarkFails) =>
        pi.result.img =
            process_image(pi.source_img,
                          [pi.options EXCEPT !.adv_watermark_enabled = FALSE],
                          pi.hook, pi.avail, pi.hook_raises).img

C17_Witness ==
    /\ Returned
    /\ pi.options.adv_watermark_enabled
    /\ pi.options.adv_watermark_path = "corrupt.png"
    /\ pi.result.img.w >= WatermarkImage.h
    /\ "watermark" \notin StagesRun

\* C18: the overlay stage keeps the alpha of every pixel and gives every
\* opaque pixel the overlay colour.
C18_OverlayKeepsAlpha ==
    (Returned /\ pi.options.color_overlay_enabled) =>
        LET before == before_overlay.img
            after == stage_overlay(before_overlay, pi.options).img
        IN  /\ after.w = before.w
            /\ after.h = before.h
            /\ \A xy \in Coords(before.w, before.h) :
                  /\ after.px[xy][4] = before.px[xy][4]
                  /\ before.px[xy][4] = 255 =>
                        <<after.px[xy][1], after.px[xy][2], after.px[xy][3]>>
                            = pi.options.color_overlay

\* C19: after the background fill every pixel has alpha 255 and the image
\* has the size it had.
C19_FillFlattens ==
    (Returned /\ pi.options.bg_color # NoColor) =>
        LET before == before_bg_fill.img
            after == stage_bg_fill(before_bg_fill, pi.options).img
        IN  /\ after.w = before.w
            /\ after.h = before.h
            /\ \A xy \in Coords(after.w, after.h) : after.px[xy][4] = 255

\* C20: rounding makes every pixel outside the rounded rectangle
\* transparent and keeps the alpha of every pixel inside it.
C20_RoundingIntersectsAlpha ==
    (Returned /\ pi.options.radius > 0) =>
        LET before == before_rounding.img
            after == pi.result.img
            radius == (Min2(before.w, before.h) * pi.options.radius) \div 200
        IN  \A xy \in Coords(before.w, before.h) :
               after.px[xy][4] = (IF InRoundedRect(xy, before.w, before.h, radius)
                                  THEN before.px[xy][4] ELSE 0)

\* the pixels of an image that are not fully transparent
Silhouette(img) == { xy \in Coords(img.w, img.h) : img.px[xy][4] # 0 }

\* the Chebyshev distance of two points
Chebyshev(a, b) == Max2(Abs(a[1] - b[1]), Abs(a[2] - b[2]))

\* C21: the silhouette after a stroke of width k is the set of the points
\* within Chebyshev distance k of the silhouette before it, the points
\* beyond the border of the image included.
C21_StrokeGrowsByK ==
    (Returned /\ "stroke" \in StagesRun) =>
        LET before == before_fx.img
            after == before_padding.img
            k == pi.options.adv_stroke_width
            plane == ((-k)..(before.w - 1 + k)) \X ((-k)..(before.h - 1 + k))
        IN  Silhouette(after) =
                { xy \in plane : \E s \in Silhouette(before) : Chebyshev(xy, s) <= k }

\* the least integer that is at least a / b, for b > 0
Ceil(a, b) == -((-a) \div b)

\* C22: the padded canvas is a square of side ceil(max(w, h) / (1 - p/100))
\* and the image is pasted on it at a non-negative position.
C22_PaddedSideIsCeil ==
    (Returned /\ pi.options.padding > 0) =>
        LET before == before_padding.img
            after == before_watermark.img
            side == Ceil(100 * Max2(before.w, before.h), 100 - pi.options.padding)
        IN  /\ after.w = side
            /\ after.h = side
            /\ (after.w - before.w) \div 2 >= 0
            /\ (after.h - before.h) \div 2 >= 0

\* a w x h rectangle pasted at pos lies inside a canvas of the given size
Inside(pos, w, h, size) ==
    /\ pos[1] >= 0
    /\ pos[2] >= 0
    /\ pos[1] + w <= size[1]
    /\ pos[2] + h <= size[2]

\* C23: the shadow layer and the subject are pasted at non-negative
\* positions and lie entirely inside the shadow canvas.
C23_ShadowAndSubjectInsideCanvas ==
    (Returned /\ "shadow" \in StagesRun) =>
        LET img == before_fx.img
            size == <<before_padding.img.w, before_padding.img.h>>
        IN  /\ Inside(shadow_paste_pos(pi.options), img.w, img.h, size)
            /\ Inside(img_paste_pos(pi.options), img.w, img.h, size)

C23_Witness ==
    /\ Returned
    /\ "shadow" \in StagesRun
    /\ pi.options.adv_shadow_offset_x > 0
    /\ pi.options.adv_shadow_offset_y < 0
    /\ shadow_paste_pos(pi.options) # img_paste_pos(pi.options)

\* C24: the shadow stage returns a canvas of
\* (w + |offsetX| + 2*blur) x (h + |offsetY| + 2*blur).
C24_ShadowCanvasSize ==
    (Returned /\ "shadow" \in StagesRun) =>
        /\ before_padding.img.w = before_fx.img.w + Abs(pi.options.adv_shadow_offset_x)
                                    + 2 * pi.options.adv_shadow_blur
        /\ before_padding.img.h = before_fx.img.h + Abs(pi.options.adv_shadow_offset_y)
                                    + 2 * pi.options.adv_shadow_blur

C24_Witness ==
    /\ Returned
    /\ "shadow" \in StagesRun
    /\ pi.options.adv_shadow_blur > 0
    /\ pi.options.adv_shadow_offset_x < 0
    /\ before_padding.img.w = before_fx.img.w + 3

\* the width and the height of an image
Size(img) == <<img.w, img.h>>

\* C25: only padding and the shadow effect change the size of the image,
\* and they never make it smaller.
C25_OnlyPaddingAndShadowResize ==
    Returned =>
        /\ Size(before_fx.img) = Size(pi.source_img)
        /\ "shadow" \notin StagesRun => Size(before_padding.img) = Size(before_fx.img)
        /\ Size(pi.result.img) = Size(before_watermark.img)
        /\ Size(pi.result.img) # Size(pi.source_img) =>
              \/ pi.options.padding > 0
              \/ pi.options.adv_fx_enabled /\ pi.options.adv_fx_mode = "shadow"
        /\ pi.result.img.w >= pi.source_img.w
        /\ pi.result.img.h >= pi.source_img.h

C25_Witness ==
    /\ Returned
    /\ {"stroke", "watermark"} \subseteq StagesRun
    /\ Size(pi.result.img) = Size(pi.source_img)

\* C29: with a position name that is not one of the nine, the watermark is
\* composited as it is with bottom_right.
C29_UnknownPositionIsBottomRight ==
    (/\ Returned
     /\ pi.options.adv_watermark_enabled
     /\ pi.options.adv_watermark_path \in DecodablePaths
     /\ pi.options.adv_watermark_pos \notin PosNames) =>
        pi.result.img =
            process_image(pi.source_img,
                          [pi.options EXCEPT !.adv_watermark_pos = "bottom_right"],
                          pi.hook, pi.avail, pi.hook_raises).img

\* ------------------------------------------------ the worker, continued
\* the messages of the structural errors of generate
StructuralErrors ==
    { "svg output needs an svg source", "ico needs at least one size",
      "png suite needs at least one size", "unsupported output format" }

\* C26: a generate call that fails with a structural error leaves the
\* directories and the files as they were when it was called.
C26_StructuralFailureLeavesDisk ==
    [][(/\ pc = "generate"
        /\ pc' = "done"
        /\ CurrentResult.raised
        /\ CurrentResult.msg \in StructuralErrors) =>
            (dirs' = dirs /\ files' = files)]_vars

\* the progress signals emitted so far, in order
Progress == SelectSeq(events, LAMBDA e : e.sig = "progress")

\* C27: there is one progress signal per generate call started, they carry
\* the indices 0, 1, 2, ... and the total n, the signal of an item precedes
\* the end of its generate call, and an item that raised has its signal.
C27_ProgressPerStartedItem ==
    /\ Len(Progress) = Len(calls)
    /\ \A k \in DOMAIN Progress :
          /\ Progress[k].i = k - 1
          /\ Progress[k].total = total
    /\ Len(trace) <= Len(Progress)
    /\ pc = "generate" => Len(Progress) = Len(trace) + 1
    /\ raised # 0 => Len(Progress) = raised

C27_Witness ==
    /\ raised = 2
    /\ Len(Progress) = 2
    /\ Progress[2].i = 1
    /\ total = 3

\* ================================================================ SpecJob
\* The background-removal hook over the items of a job: the window, whose
\* rembg initializer ends at any time, creates workers; a worker hands its
\* remove_func to generate for every item, and process_image decides on the
\* hook.  Every item is a raster item; paths and files are those of Spec.

InitJob ==
    /\ NoWorker
    /\ svg = Idle
    /\ REMBG_AVAILABLE = FALSE
    /\ rembg_remove_func = FALSE
    /\ pi = Idle
    /\ active_workers = {"RembgInitializer"}
    /\ NoWindow

\* _start_generation_process creates the worker: GenerateWorker.__init__
\* stores the copy of the options and self.rembg_remove_func as it is now
StartJob ==
    /\ job.phase \in {"idle", "done"}
    /\ \E n \in 1..MaxBatch, remove_bg \in BOOLEAN :
          job' = [phase |-> "running", remove_func |-> rembg_remove_func,
                  remove_bg |-> remove_bg, total |-> n, i |-> 0, attempts |-> <<>>]
    /\ UNCHANGED <<workerVars, svg, REMBG_AVAILABLE, rembg_remove_func, pi,
                   active_workers, batch_items, batch_list, last_op>>

\* the hook test of process_image for the worker's item
hook_attempted == job.remove_bg /\ REMBG_AVAILABLE /\ job.remove_func

JobItem_ReadsWindowHook ==
    /\ job.phase = "running"
    /\ job.i < job.total
    /\ \E raises \in BOOLEAN :
          job' = [job EXCEPT
                    !.attempts = Append(@, job.remove_bg /\ REMBG_AVAILABLE
                                             /\ rembg_remove_func),
                    !.i = IF raises THEN @ ELSE @ + 1,
                    !.phase = IF raises THEN "done" ELSE @]
    /\ UNCHANGED <<workerVars, svg, REMBG_AVAILABLE, rembg_remove_func, pi,
                   active_workers, batch_items, batch_list, last_op>>

\* run: generate(source_path, ..., self.options, self.remove_func) for the
\* next item; process_image decides on the hook, and generate returns or
\* raises afterwards
JobItem ==
    /\ job.phase = "running"
    /\ job.i < job.total
    /\ \E raises \in BOOLEAN :
          job' = [job EXCEPT
                    !.attempts = Append(@, hook_attempted),
                    !.i = IF raises THEN @ ELSE @ + 1,
                    !.phase = IF raises THEN "done" ELSE @]
    /\ UNCHANGED <<workerVars, svg, REMBG_AVAILABLE, rembg_remove_func, pi,
                   active_workers, batch_items, batch_list, last_op>>

\* run: the loop is exhausted
JobEnd ==
    /\ job.phase = "running"
    /\ job.i = job.total
    /\ job' = [job EXCEPT !.phase = "done"]
    /\ UNCHANGED <<workerVars, svg, REMBG_AVAILABLE, rembg_remove_func, pi,
                   active_workers, batch_items, batch_list, last_op>>

NextJob ==
    \/ on_rembg_initialized
    \/ StartJob
    \/ JobItem
    \/ JobEnd

SpecJob == InitJob /\ [][NextJob]_vars

\* C28: in one job the hook is attempted for every item or for none; a
\* worker that holds a hook was created with REMBG_AVAILABLE true, which
\* stays true; a worker created without a hook never attempts it, also
\* after the initializer has ended.
C28_HookForAllItemsOrNone ==
    /\ rembg_remove_func => REMBG_AVAILABLE
    /\ job.phase # "idle" =>
          /\ \A a, b \in DOMAIN job.attempts : job.attempts[a] = job.attempts[b]
          /\ job.remove_func => REMBG_AVAILABLE
          /\ ~job.remove_func => \A a \in DOMAIN job.attempts : ~job.attempts[a]
          /\ \A a \in DOMAIN job.attempts :
                job.attempts[a] = (job.remove_bg /\ job.remove_func)

C28_Witness ==
    /\ job.phase = "running"
    /\ ~job.remove_func
    /\ job.remove_bg
    /\ REMBG_AVAILABLE
    /\ rembg_remove_func
    /\ Len(job.attempts) >= 2
    /\ \A a \in DOMAIN job.attempts : ~job.attempts[a]

\* ============================================================== SpecBatch
\* The batch list of the window: batch_items and the entries of the list
\* widget, under the operations that add files (the file dialog, the folder
\* dialog, a drop, the icon library) and the one that clears the list.

\* largest number of files one operation hands to _add_files_to_batch
MaxAdd == 2

\* the files the user can add; two of them have the same base name
BatchFiles == Sources \cup { <<Comp("lib", ""), Comp("a", ".png")>> }

\* the lists of files one operation hands over, a file twice included
FileLists == UNION { [1..n -> BatchFiles] : n \in 0..MaxAdd }

\* QListWidgetItem(os.path.basename(f)) with setData(Qt.UserRole, f)
ListItem(f) == [text |-> basename(f), data |-> f]

RECURSIVE add_files_NoMembershipTest(_, _, _)
add_files_NoMembershipTest(items, list, fs) ==
    IF fs = <<>> THEN [items |-> items, list |-> list]
    ELSE add_files_NoMembershipTest(Append(items, Head(fs)),
                                    Append(list, ListItem(Head(fs))), Tail(fs))

RECURSIVE add_files(_, _, _)
\* the loop of _add_files_to_batch: a file that is not in batch_items is
\* appended to it and gets an entry at the end of the widget
add_files(items, list, fs) ==
    IF fs = <<>> THEN [items |-> items, list |-> list]
    ELSE IF \E k \in DOMAIN items : items[k] = Head(fs)
         THEN add_files(items, list, Tail(fs))
         ELSE add_files(Append(items, Head(fs)), Append(list, ListItem(Head(fs))),
                        Tail(fs))

InitBatch ==
    /\ NoWorker
    /\ svg = Idle
    /\ REMBG_AVAILABLE = FALSE
    /\ rembg_remove_func = FALSE
    /\ pi = Idle
    /\ active_workers = {}
    /\ NoWindow

\* _add_files_to_batch(files), files from the dialogs, a drop or the library
add_files_to_batch ==
    /\ \E fs \in FileLists :
          /\ batch_items' = add_files(batch_items, batch_list, fs).items
          /\ batch_list' = add_files(batch_items, batch_list, fs).list
    /\ last_op' = "add"
    /\ UNCHANGED <<workerVars, svg, REMBG_AVAILABLE, rembg_remove_func, pi,
                   active_workers, job>>

\* _clear_batch
clear_batch ==
    /\ batch_list' = <<>>
    /\ batch_items' = <<>>
    /\ last_op' = "clear"
    /\ UNCHANGED <<workerVars, svg, REMBG_AVAILABLE, rembg_remove_func, pi,
                   active_workers, job>>

NextBatch ==
    \/ add_files_to_batch
    \/ clear_batch

SpecBatch == InitBatch /\ [][NextBatch]_vars

\* C30: batch_items holds no path twice, the widget holds one entry per
\* element of batch_items in the same order, and both are empty after the
\* list was cleared.
C30_BatchListConsistent ==
    /\ \A a, b \in DOMAIN batch_items : a # b => batch_items[a] # batch_items[b]
    /\ Len(batch_list) = Len(batch_items)
    /\ \A k \in DOMAIN batch_items : batch_list[k] = ListItem(batch_items[k])
    /\ last_op = "clear" => (batch_items = <<>> /\ batch_list = <<>>)

C30_Witness ==
    /\ last_op = "add"
    /\ Len(batch_items) = 3
    /\ batch_list[1].text = batch_list[3].text
    /\ batch_list[1].data # batch_list[3].data

====
